---- MODULE Spec2Model ----
(***************************************************************************)
(* Model of the chat widget: the token store and authenticated HTTP client *)
(* of src/src/services/api.ts and the Chatbot component (src/unnamed/      *)
(* part_000).  One action per handler or per continuation that runs after  *)
(* an awaited network response; JavaScript runs each of them to completion.*)
(***************************************************************************)
EXTENDS Integers, Sequences, FiniteSets, TLC

VARIABLES
  STATIC_BEARER,      \* api.ts:3   build-time configuration
  API_USERNAME,       \* api.ts:4
  API_PASSWORD,       \* api.ts:5
  ACCESS_TOKEN,       \* api.ts:22  module state
  REFRESH_TOKEN,      \* api.ts:23
  ACCESS_EXPIRES_AT,  \* api.ts:24
  localStorage,       \* the browser's key-value store: a function on the keys present
  now,                \* Date.now(), in ms
  calls,              \* the http() invocations in flight, in start order
  settled,            \* log: the http() invocation that settled last
  tokenLog,           \* log: the last token-store operation, and the last bundle saved
  mounted,            \* the Chatbot component is mounted (bootedRef, part_000:44)
  messages,           \* part_000:28
  options,            \* part_000:30
  searchState,        \* part_000:31  a function on the fields that are set
  currentPage,        \* part_000:39  pagination.currentPage
  allPropertiesRef,   \* part_000:40
  userIdRef,          \* part_000:42
  memo,               \* the render whose closures bedButtons/cityButtons hold (part_000:79-91)
  onclick,            \* DOM: message index -> the closure bound to its Show More button
  timers              \* pending setTimeout callbacks, in the order they were set

apiVars == <<STATIC_BEARER, API_USERNAME, API_PASSWORD, ACCESS_TOKEN, REFRESH_TOKEN,
             ACCESS_EXPIRES_AT, localStorage, now, calls, settled, tokenLog>>

uiVars == <<mounted, messages, options, searchState, currentPage, allPropertiesRef,
            userIdRef, memo, onclick, timers>>

vars == <<apiVars, uiVars>>

(***************************************************************************)
(* Bounds of the model.                                                    *)
(***************************************************************************)
MaxTicks == 1
MaxCalls == 2
MaxApiCalls == 1

T0 == 10 * 1000
TickMs == 2 * 1000

(***************************************************************************)
(* Strings and numbers.  String(n) is modelled digit by digit, Number(s)   *)
(* by parsing the digits back.                                             *)
(***************************************************************************)
DigitChars == <<"0", "1", "2", "3", "4", "5", "6", "7", "8", "9">>

RECURSIVE NumberToString(_)
NumberToString(n) ==
  IF n < 0 THEN <<"-">> \o NumberToString(0 - n)
  ELSE IF n < 10 THEN <<DigitChars[n + 1]>>
  ELSE NumberToString(n \div 10) \o <<DigitChars[(n % 10) + 1]>>

NaN == "NaN"

IsDigit(c) == \E d \in 1..10 : DigitChars[d] = c
DigitValue(c) == (CHOOSE d \in 1..10 : DigitChars[d] = c) - 1

RECURSIVE ParseDigits(_, _)
ParseDigits(s, acc) ==
  IF s = <<>> THEN acc
  ELSE ParseDigits(Tail(s), acc * 10 + DigitValue(Head(s)))

StringToNumber(s) ==
  IF s = <<>> THEN 0
  ELSE IF Head(s) = "-" /\ Len(s) > 1 /\ \A i \in 2..Len(s) : IsDigit(s[i])
    THEN 0 - ParseDigits(Tail(s), 0)
  ELSE IF \A i \in 1..Len(s) : IsDigit(s[i]) THEN ParseDigits(s, 0)
  ELSE NaN

RECURSIVE Text(_)
Text(chars) == IF chars = <<>> THEN "" ELSE Head(chars) \o Text(Tail(chars))

(***************************************************************************)
(* Token store.                                                            *)
(***************************************************************************)
INITIAL_EXPIRES_AT == 15
SafetyBufferMs == 5000
DefaultExpiresIn == 60 * 15

HasItem(k) == k \in DOMAIN localStorage

\* localStorage.getItem(k) || ''  for the string-valued keys
GetItemOrEmpty(k) == IF HasItem(k) THEN localStorage[k] ELSE ""

\* Number(localStorage.getItem(k) || '0')
GetItemAsNumber(k) ==
  IF HasItem(k) /\ localStorage[k] # <<>> THEN StringToNumber(localStorage[k])
  ELSE StringToNumber(<<"0">>)

LoadedTokens ==
  [access  |-> GetItemOrEmpty("cb_access_token"),
   refresh |-> GetItemOrEmpty("cb_refresh_token"),
   expires |-> GetItemAsNumber("cb_access_expires_at")]

TtlMs(bundle) ==
  (IF "expires_in" \in DOMAIN bundle THEN bundle.expires_in ELSE DefaultExpiresIn) * 1000

\* a store that forgets the safety buffer
ExpiresAtNoBuffer(bundle, t) == t + TtlMs(bundle)

ExpiresAtFor(bundle, t) == t + TtlMs(bundle) - SafetyBufferMs

StoredTokens(access, refresh, expires) ==
  ("cb_access_token" :> access) @@ ("cb_refresh_token" :> refresh)
    @@ ("cb_access_expires_at" :> NumberToString(expires))

SavedTokens(bundle) ==
  [access  |-> bundle.access_token,
   refresh |-> bundle.refresh_token,
   expires |-> ExpiresAtFor(bundle, now)]

SetMemory(t) ==
  /\ ACCESS_TOKEN' = t.access
  /\ REFRESH_TOKEN' = t.refresh
  /\ ACCESS_EXPIRES_AT' = t.expires

Logged(op) == [tokenLog EXCEPT !.op = op]

loadTokens ==
  /\ SetMemory(LoadedTokens)
  /\ tokenLog' = Logged("load")

saveTokens(bundle) ==
  /\ SetMemory(SavedTokens(bundle))
  /\ tokenLog' = [op |-> "save", reloaded |-> FALSE, saved |-> TRUE,
                  bundle |-> bundle, at |-> now]
  /\ localStorage' =
       StoredTokens(bundle.access_token, bundle.refresh_token, ExpiresAtFor(bundle, now))
         @@ localStorage

(***************************************************************************)
(* Authenticated HTTP client.                                              *)
(***************************************************************************)
StaticTtlMs == 3600 * 1000

\* a client that sends the bare token, without the Bearer scheme
RequestHeadersNoScheme(token) ==
  IF token # ""
    THEN ("Content-Type" :> "application/json") @@ ("Authorization" :> token)
    ELSE ("Content-Type" :> "application/json")

\* the headers doFetch builds; no caller passes init.headers, so ...init
\* (method and body only) never replaces them
RequestHeaders(token) ==
  IF token # ""
    THEN ("Content-Type" :> "application/json") @@ ("Authorization" :> ("Bearer " \o token))
    ELSE ("Content-Type" :> "application/json")

\* one fetch() as it leaves the client; token records ACCESS_TOKEN at that moment
Request(url, headers, token) == [url |-> url, headers |-> headers, token |-> token]

doFetch(token) == Request("target", RequestHeaders(token), token)

LoginRequest == Request("/auth/login", ("Content-Type" :> "application/json"), "")
RefreshRequest == Request("/auth/refresh", ("Content-Type" :> "application/json"), "")

IsOk(status) == status \in 200..299

\* a client that compares the expiry the wrong way round
TokenUsableInverted(t) == t.access # "" /\ now > t.expires

\* loginIfNeeded: the token just loaded is usable
TokenUsable(t) == t.access # "" /\ now < t.expires

CanLogin == API_USERNAME # "" /\ API_PASSWORD # ""

\* http: "Try refresh on 401"
TriesRefresh(status) == status = 401 /\ STATIC_BEARER = ""

\* refreshIfPossible: its first line
RefreshPossible == REFRESH_TOKEN # ""

\* a client that retries whatever the refresh returned
RetriesAlways(refreshed) == TRUE

\* http: the retry after refreshIfPossible() returned `refreshed`
RetriesAfter(refreshed) == refreshed

\* new Error(`HTTP ${res.status}${detail ? `: ${detail}` : ''}`), as its pieces
HttpError(status, detail) ==
  <<"HTTP ", Text(NumberToString(status))>> \o (IF detail # "" THEN <<": ", detail>> ELSE <<>>)

\* the tokens in memory once loginIfNeeded has run up to its first await
StartTokens ==
  IF STATIC_BEARER # ""
    THEN [access |-> STATIC_BEARER, refresh |-> REFRESH_TOKEN, expires |-> now + StaticTtlMs]
    ELSE LoadedTokens

\* req: [kind, arg, closure, ghost]; the call as it stands at http()'s first
\* awaited network response.  Besides the request it carries a log: what local
\* storage held and the time when it started (stored, at), every fetch it made
\* (sent), the statuses of the target's responses, and the refresh it tried
StartedCall(req) ==
  LET logsIn == STATIC_BEARER = "" /\ ~TokenUsable(LoadedTokens) /\ CanLogin
  IN [kind |-> req.kind, arg |-> req.arg, closure |-> req.closure, ghost |-> req.ghost,
      pc |-> IF logsIn THEN "login" ELSE "fetch",
      stored |-> LoadedTokens, at |-> now,
      sent |-> IF logsIn THEN <<LoginRequest>> ELSE <<doFetch(StartTokens.access)>>,
      statuses |-> <<>>, detail |-> "", refreshed |-> "none", issued |-> "",
      error |-> <<>>, body |-> <<>>]

Pending(i, pc) == i \in 1..Len(calls) /\ calls[i].pc = pc

\* http(path, init) for each of `reqs`, started in one task, up to the first
\* awaited network response of each
http(reqs) ==
  /\ SetMemory(StartTokens)
  /\ tokenLog' = Logged(IF STATIC_BEARER # "" THEN "static" ELSE "load")
  /\ calls' = calls \o [k \in 1..Len(reqs) |-> StartedCall(reqs[k])]
  /\ UNCHANGED <<STATIC_BEARER, API_USERNAME, API_PASSWORD, now, settled>>

\* the settled promise of a call
Received(c, status) == [c EXCEPT !.statuses = Append(@, status)]

Resolved(c, body) == [c EXCEPT !.pc = "resolved", !.body = body]

\* http: if (!res.ok) throw new Error(...)
Rejected(c, status, detail) == [c EXCEPT !.pc = "rejected", !.error = HttpError(status, detail)]

(***************************************************************************)
(* Chat UI component: values.                                              *)
(*   null / undefined   Null                                               *)
(*   an array           Array(items)                                       *)
(*   a message text     the sequence of its pieces, '' being <<>>          *)
(*   an array element   Str(s) for a string, Obj(f) for an object whose    *)
(*                      present (non-null) fields are DOMAIN f             *)
(***************************************************************************)
Null == [tag |-> "null"]
IsNull(v) == "tag" \in DOMAIN v /\ v.tag = "null"
Array(items) == [tag |-> "array", items |-> items]
IsArray(v) == "tag" \in DOMAIN v /\ v.tag = "array"
Str(s) == [tag |-> "string", s |-> s]
Obj(f) == [tag |-> "object", f |-> f]
RawHtml(src) == [tag |-> "html", src |-> src]

Field(resp, k) == IF k \in DOMAIN resp THEN resp[k] ELSE Null

ItemsPerPage == 3
FirstPageSize == 3

QuickButton(label, value) == [label |-> label, value |-> value]

\* o?.a ?? o?.b ?? ... ?? ''  followed by String()
RECURSIVE FirstPresent(_, _)
FirstPresent(o, fields) ==
  IF fields = <<>> THEN ""
  ELSE IF o.tag = "object" /\ Head(fields) \in DOMAIN o.f THEN o.f[Head(fields)]
  ELSE FirstPresent(o, Tail(fields))

LabelFields == <<"label", "text", "name", "title", "value", "id">>
ValueFields == <<"value", "id", "label", "text", "name">>

\* String(x) of an array element
StringOf(e) == IF e.tag = "string" THEN e.s ELSE "[object Object]"

normalizeOptions(arr) ==
  IF Len(arr) > 0 /\ arr[1].tag = "string"
    THEN [i \in 1..Len(arr) |-> QuickButton(StringOf(arr[i]), StringOf(arr[i]))]
    ELSE [i \in 1..Len(arr) |->
            QuickButton(FirstPresent(arr[i], LabelFields), FirstPresent(arr[i], ValueFields))]

\* the first of the fields `names` of resp that is an array, else null
RECURSIVE FirstArray(_, _)
FirstArray(resp, names) ==
  IF names = <<>> THEN Null
  ELSE IF IsArray(Field(resp, Head(names))) THEN Field(resp, Head(names))
  ELSE FirstArray(resp, Tail(names))

rawButtons(resp) == FirstArray(resp, <<"buttons", "options", "choices">>)
rawDropdown(resp) == FirstArray(resp, <<"dropdown", "select_options">>)

Normalized(raw) == IF IsNull(raw) THEN Null ELSE Array(normalizeOptions(raw.items))

NonEmpty(list) == ~IsNull(list) /\ Len(list.items) > 0

\* s.trim() on the result strings of the model
Trim(s) == IF s = " " THEN "" ELSE IF s = " Sure? " THEN "Sure?" ELSE s

StringField(resp, k) == IF k \in DOMAIN resp THEN resp[k] ELSE ""

isDropdown(resp) == StringField(resp, "response_type") \in {"dropdown", "select", "list", "menu"}
isButtons(resp) ==
  StringField(resp, "response_type") \in {"buttons", "button", "quick_replies", "options", "chips"}

Message(sender, text, html, buttons, dropdown) ==
  [sender |-> sender, text |-> text, html |-> html, buttons |-> buttons, dropdown |-> dropdown]

\* append('Bot', ...): html || null, buttons || null, dropdown || null
BotMessage(text, html, buttons, dropdown) == Message("Bot", text, html, buttons, dropdown)
YouMessage(text) == Message("You", text, Null, Null, Null)

TextOf(s) == IF s = "" THEN <<>> ELSE <<s>>
HtmlOf(s) == IF s = "" THEN Null ELSE RawHtml(s)

\* sendPrompt.then: the message rendered for the reply itself (none, or one)
ReplyMessages(resp) ==
  LET buttons == Normalized(rawButtons(resp))
      dropdown == Normalized(rawDropdown(resp))
      html == StringField(resp, "html")
      result == Trim(StringField(resp, "result"))
  IN IF StringField(resp, "type") = "onboarding"
       THEN IF isDropdown(resp) /\ NonEmpty(dropdown)
              THEN <<BotMessage(<<>>, Null, Null, dropdown)>>
            ELSE IF isButtons(resp) /\ NonEmpty(buttons)
              THEN <<BotMessage(<<>>, Null, buttons, Null)>>
            ELSE IF Trim(html) # ""
              THEN <<BotMessage(<<>>, RawHtml(html), buttons, Null)>>
            ELSE IF result # ""
              THEN <<BotMessage(<<result>>, Null, buttons, Null)>>
            ELSE <<>>
       ELSE IF result # ""
              THEN IF isButtons(resp) /\ NonEmpty(buttons)
                     THEN <<BotMessage(<<result>>, HtmlOf(html), buttons, Null)>>
                     ELSE <<BotMessage(<<result>>, HtmlOf(html), Null, Null)>>
              ELSE <<>>

\* renderProperties(items, remaining): the cards and, when remaining > 0, the
\* button with id chatbot-show-more
renderProperties(items, remaining) ==
  [tag |-> "cards", items |-> items, remaining |-> remaining]

HasShowMore(m) == m.html.tag = "cards" /\ m.html.remaining > 0

Slice(list, start, end) ==
  [i \in 1..(IF end > start THEN end - start ELSE 0) |-> list[start + i]]

Min(a, b) == IF a < b THEN a ELSE b

PropertiesOf(resp) ==
  IF IsArray(Field(resp, "properties")) THEN Field(resp, "properties").items ELSE <<>>

FirstPage(list) ==
  renderProperties(Slice(list, 0, Min(FirstPageSize, Len(list))),
                   IF Len(list) > FirstPageSize THEN Len(list) - FirstPageSize ELSE 0)

FoundText(count, suffix) ==
  <<"Found ", Text(NumberToString(count)), " ",
    IF count = 1 THEN "property" ELSE "properties", suffix>>

(***************************************************************************)
(* Chat UI component: the continuations of the three requests it makes.    *)
(***************************************************************************)
MaxMsgs == 4

BindTimer(closure) == [kind |-> "bind", closure |-> closure]
AskCityTimer == [kind |-> "askCity"]

\* sendChat: FastAPI returns { success, data }
Unwrap(resp) == IF "data" \in DOMAIN resp THEN resp.data ELSE resp

\* a handler that always shows its fallback text
CatchFallback(error) == <<BotMessage(<<"Failed to contact assistant.">>, Null, Null, Null)>>

\* sendPrompt .catch: appendBot(err.message)
CatchMessages(error) == <<BotMessage(error, Null, Null, Null)>>

\* shows the first page of `list` under `text` and sets the timer that binds
\* the Show More button; allPropertiesRef and the page are reset in any case
ShowList(before, list, text, closure) ==
  /\ allPropertiesRef' = list
  /\ currentPage' = 1
  /\ IF Len(list) > 0
       THEN /\ messages' = before \o <<BotMessage(text, FirstPage(list), Null, Null)>>
            /\ timers' = Append(timers, BindTimer(closure))
       ELSE /\ messages' = before
            /\ UNCHANGED timers

\* sendPrompt: .then / .catch  (part_000:235-307)
sendPromptSettled(c) ==
  /\ IF c.pc = "resolved"
       THEN LET resp == Unwrap(c.body)
                list == PropertiesOf(resp)
            IN ShowList(messages \o ReplyMessages(resp), list,
                        FoundText(Len(list), ":"), c.closure)
       ELSE /\ messages' = messages \o CatchMessages(c.error)
            /\ UNCHANGED <<allPropertiesRef, currentPage, timers>>
  /\ UNCHANGED <<options, memo>>

\* runPropertySearch: .then / .catch  (part_000:143-156)
runPropertySearchSettled(c) ==
  /\ IF c.pc = "resolved"
       THEN LET list == PropertiesOf(c.body)
            IN ShowList(IF Len(list) = 0
                          THEN Append(messages,
                                 BotMessage(<<"No properties found for your criteria.">>,
                                            Null, Null, Null))
                          ELSE messages,
                        list, FoundText(Len(list), " for your criteria:"), c.closure)
       ELSE /\ messages' = Append(messages,
                             BotMessage(<<"Failed to fetch property listings.">>,
                                        Null, Null, Null))
            /\ UNCHANGED <<allPropertiesRef, currentPage, timers>>
  /\ UNCHANGED <<options, memo>>

\* boot effect: getChatbotOptions().then(setOptions).catch(() => setOptions(null));
\* the render that follows recomputes bedButtons and cityButtons, whose
\* handlers close over that render's state
getChatbotOptionsSettled(c) ==
  /\ IF c.pc = "resolved"
       THEN /\ options' = c.body
            /\ memo' = [searchState |-> searchState, currentPage |-> currentPage]
       ELSE /\ options' = Null
            /\ UNCHANGED memo
  /\ UNCHANGED <<messages, allPropertiesRef, currentPage, timers>>

\* what runs when call c settles
Continuation(c) ==
  /\ CASE c.kind = "chat"    -> sendPromptSettled(c)
       [] c.kind = "search"  -> runPropertySearchSettled(c)
       [] c.kind = "options" -> getChatbotOptionsSettled(c)
       [] OTHER              -> UNCHANGED <<messages, allPropertiesRef, currentPage, timers,
                                            options, memo>>
  /\ Len(messages') <= MaxMsgs
  /\ UNCHANGED <<mounted, searchState, userIdRef, onclick>>

(***************************************************************************)
(* What the server may answer.                                             *)
(***************************************************************************)
LoginBundles ==
  {[access_token |-> "a1", refresh_token |-> "r1"],
   [access_token |-> "a1", refresh_token |-> "r1", expires_in |-> 7]}

RefreshData == {[access_token |-> "a2", expires_in |-> 7]}

AuthStatuses == {200, 401}

PropertyCounts == {0, 2, 7}

PropertyList(n) == Array([i \in 1..n |-> i])

\* replies that carry a property list and no text
PropertyReplies ==
  {[type |-> "search", result |-> " ", properties |-> PropertyList(n)] :
     n \in PropertyCounts \ {0}}

ChatReplies ==
  {[type |-> "onboarding", response_type |-> "dropdown", result |-> "Pick one",
    dropdown |-> Array(<<Obj([label |-> "Buy", value |-> "buy"])>>)],
   [type |-> "chat", response_type |-> "dropdown", result |-> "Pick one",
    dropdown |-> Array(<<Obj([label |-> "Buy", value |-> "buy"])>>)],
   [success |-> TRUE,
    data |-> [type |-> "chat", response_type |-> "buttons", result |-> " Sure? ",
              options |-> Array(<<Str("Yes")>>)]],
   [type |-> "onboarding", response_type |-> "buttons", result |-> "Rent or buy?",
    choices |-> Array(<<Obj([text |-> "Rent", id |-> "rent"]), Str("Buy")>>)]}
  \cup PropertyReplies

BedChoices == {2}
CityChoices == {"George Town"}

OptionsBodies == {[beds |-> <<2>>, cities |-> <<"George Town">>]}

BodiesFor(kind) ==
  CASE kind = "chat"    -> ChatReplies
    [] kind = "search"  -> {[properties |-> PropertyList(n)] : n \in PropertyCounts}
    [] kind = "options" -> OptionsBodies
    [] OTHER            -> {[result |-> "ok"]}

\* the responses to the target request: OK with a body, or an error status
\* with the text of its body
ErrorResponses ==
  {[status |-> 401, detail |-> "denied", body |-> Null],
   [status |-> 500, detail |-> "", body |-> Null]}

OkResponses(bodies) == {[status |-> 200, detail |-> "", body |-> b] : b \in bodies}

ResponsesFor(kind) == OkResponses(BodiesFor(kind)) \cup ErrorResponses

(***************************************************************************)
(* http(): the continuations after each awaited response.                  *)
(***************************************************************************)
tokenVars == <<ACCESS_TOKEN, REFRESH_TOKEN, ACCESS_EXPIRES_AT, tokenLog>>
configVars == <<STATIC_BEARER, API_USERNAME, API_PASSWORD>>

\* the promise of call i settles as c, and its continuation runs
RemoveAt(seq, i) == [k \in 1..(Len(seq) - 1) |-> IF k < i THEN seq[k] ELSE seq[k + 1]]

Settle(i, c) ==
  /\ calls' = RemoveAt(calls, i)
  /\ settled' = c
  /\ Continuation(c)

Outcome(c, status, detail, body) ==
  IF IsOk(status) THEN Resolved(c, body) ELSE Rejected(c, status, detail)

\* loginIfNeeded after the /auth/login response, then the first doFetch
LoginResponse(i, status, bundle) ==
  /\ Pending(i, "login")
  /\ IF IsOk(status)
       THEN saveTokens(bundle)
       ELSE UNCHANGED <<tokenVars, localStorage>>
  /\ calls' = [calls EXCEPT ![i] =
                 [@ EXCEPT !.pc = "fetch", !.sent = Append(@, doFetch(ACCESS_TOKEN'))]]
  /\ UNCHANGED <<configVars, now, settled, uiVars>>

\* http after the response to the first doFetch
FetchResponse(i, r) ==
  /\ Pending(i, "fetch")
  /\ r \in ResponsesFor(calls[i].kind)
  /\ LET c == Received(calls[i], r.status)
     IN IF TriesRefresh(r.status) /\ RefreshPossible
          THEN /\ calls' = [calls EXCEPT ![i] =
                              [c EXCEPT !.pc = "refresh", !.detail = r.detail,
                                        !.sent = Append(@, RefreshRequest)]]
               /\ UNCHANGED <<settled, uiVars>>
          ELSE Settle(i, Outcome(
                 [c EXCEPT !.refreshed = IF TriesRefresh(r.status) THEN "impossible" ELSE @],
                 r.status, r.detail, r.body))
  /\ UNCHANGED <<configVars, tokenVars, localStorage, now>>

\* a refresh that saves the response as it came, without a refresh token
RefreshedBundleAsReceived(data) ==
  IF "expires_in" \in DOMAIN data
    THEN [access_token |-> data.access_token, refresh_token |-> "",
          expires_in |-> data.expires_in]
    ELSE [access_token |-> data.access_token, refresh_token |-> ""]

\* the bundle refreshIfPossible saves: the new access token with the refresh
\* token in memory (api.ts:84)
RefreshedBundle(data) ==
  IF "expires_in" \in DOMAIN data
    THEN [access_token |-> data.access_token, refresh_token |-> REFRESH_TOKEN,
          expires_in |-> data.expires_in]
    ELSE [access_token |-> data.access_token, refresh_token |-> REFRESH_TOKEN]

\* refreshIfPossible after the /auth/refresh response, then the retry or the throw
RefreshResponse(i, status, data) ==
  /\ Pending(i, "refresh")
  /\ LET refreshed == IsOk(status)
         first == calls[i].statuses[1]
     IN /\ IF refreshed
             THEN saveTokens(RefreshedBundle(data))
             ELSE UNCHANGED <<tokenVars, localStorage>>
        /\ IF RetriesAfter(refreshed)
             THEN /\ calls' = [calls EXCEPT ![i] =
                                 [@ EXCEPT !.pc = "retry",
                                           !.refreshed = IF refreshed THEN "ok" ELSE "failed",
                                           !.issued = IF refreshed THEN data.access_token ELSE @,
                                           !.sent = Append(@, doFetch(ACCESS_TOKEN'))]]
                  /\ UNCHANGED <<settled, uiVars>>
             ELSE Settle(i, Rejected([calls[i] EXCEPT !.refreshed = "failed"],
                                     first, calls[i].detail))
  /\ UNCHANGED <<configVars, now>>

\* http after the response to the retried doFetch
RetryResponse(i, r) ==
  /\ Pending(i, "retry")
  /\ r \in ResponsesFor(calls[i].kind)
  /\ Settle(i, Outcome(Received(calls[i], r.status), r.status, r.detail, r.body))
  /\ UNCHANGED <<configVars, tokenVars, localStorage, now>>

Tick ==
  /\ now < T0 + MaxTicks * TickMs
  /\ now' = now + TickMs
  /\ UNCHANGED <<configVars, tokenVars, localStorage, calls, settled, uiVars>>

(***************************************************************************)
(* Chat UI component: effects and event handlers.                          *)
(***************************************************************************)
UserIds == {"uuid-1"}
Inputs == {"hello"}

SetFields(f, g) == g @@ f

\* sendPrompt: the body of the /chatbot request, built when sendPrompt is called
ChatBody(userId, text, state) ==
  [user_id |-> userId, prompt |-> text,
   property_data |-> [k \in {x \in {"price", "intBeds"} : x \in DOMAIN state} |-> state[k]]
                       @@ (IF "city" \in DOMAIN state /\ state.city # ""
                             THEN ("location" :> state.city) ELSE <<>>)]

\* sendPrompt(text) called from a render whose state is `state`, `page`
sendPrompt(text, state, page) ==
  [kind |-> "chat", arg |-> ChatBody(userIdRef, text, state),
   closure |-> [currentPage |-> page], ghost |-> Null]

\* useState initializer of searchState (part_000:31-38)
InitialSearchState ==
  IF HasItem("chatbot_search_state") THEN localStorage["chatbot_search_state"] ELSE <<>>

\* effect of part_000:58-63
SearchStateSaved(state, store) == ("chatbot_search_state" :> state) @@ store

\* effect of part_000:66-75: the stored user id, or a new one that is stored
UserIdEffect(uid, store) ==
  IF "chatbot_user_id" \in DOMAIN store /\ store["chatbot_user_id"] # ""
    THEN [uid |-> store["chatbot_user_id"], store |-> store]
    ELSE [uid |-> uid, store |-> ("chatbot_user_id" :> uid) @@ store]

\* the component mounts with visible = true (App.tsx:5); its effects run in
\* the order they are declared: boot, save searchState, user id
Mount(uid) ==
  /\ ~mounted
  /\ Len(calls) + 2 <= MaxCalls
  /\ mounted' = TRUE
  /\ searchState' = InitialSearchState
  /\ messages' = <<BotMessage(<<"Hi">>, Null, Null, Null)>>
  /\ http(<<[kind |-> "options", arg |-> Null, closure |-> Null, ghost |-> Null],
            sendPrompt("", InitialSearchState, currentPage)>>)
  /\ LET e == UserIdEffect(uid, SearchStateSaved(InitialSearchState, localStorage))
     IN /\ userIdRef' = e.uid
        /\ localStorage' = e.store
  /\ UNCHANGED <<options, currentPage, allPropertiesRef, memo, onclick, timers>>

\* onSend (text typed) and onQuick (a reply button, or a dropdown's Submit)
Ask(text) ==
  /\ mounted
  /\ text # ""
  /\ Len(calls) < MaxCalls
  /\ Len(messages) < MaxMsgs
  /\ messages' = Append(messages, YouMessage(<<text>>))
  /\ http(<<sendPrompt(text, searchState, currentPage)>>)
  /\ UNCHANGED <<localStorage, mounted, options, searchState, currentPage, allPropertiesRef,
                 userIdRef, memo, onclick, timers>>

onSend(text) == Ask(Trim(text))

\* the values a reply button or a dropdown of the message list can submit
QuickValues ==
  UNION {{m.buttons.items[k].value : k \in 1..Len(m.buttons.items)} :
           m \in {messages[j] : j \in {x \in 1..Len(messages) : NonEmpty(messages[x].buttons)}}}
  \cup
  UNION {{m.dropdown.items[k].value : k \in 1..Len(m.dropdown.items)} :
           m \in {messages[j] : j \in {x \in 1..Len(messages) : NonEmpty(messages[x].dropdown)}}}

onQuick(value) ==
  /\ value \in QuickValues
  /\ Ask(value)

\* the option groups of part_000:364-375 are rendered
BedButtonsShown ==
  /\ mounted /\ ~IsNull(options)
  /\ "price" \in DOMAIN searchState /\ "intBeds" \notin DOMAIN searchState

CityButtonsShown ==
  /\ mounted /\ ~IsNull(options)
  /\ "intBeds" \in DOMAIN searchState /\ "city" \notin DOMAIN searchState

selectBeds(intBeds) ==
  /\ BedButtonsShown
  /\ Len(messages) < MaxMsgs
  /\ searchState' = SetFields(searchState, [intBeds |-> intBeds])
  /\ localStorage' = SearchStateSaved(searchState', localStorage)
  /\ messages' = Append(messages, YouMessage(<<Text(NumberToString(intBeds)), " bedroom">>))
  /\ timers' = Append(timers, AskCityTimer)
  /\ UNCHANGED <<configVars, tokenVars, now, calls, settled, mounted, options,
                 currentPage, allPropertiesRef, userIdRef, memo, onclick>>

\* (price / 100000).toFixed(1), for prices that are multiples of 10000
ToFixed1(price) ==
  Text(NumberToString(price \div 100000)) \o "." \o
    Text(NumberToString((price % 100000) \div 10000))

\* runPropertySearch in a render whose searchState is `state`: the query
SearchParams(state) ==
  [k \in {x \in {"price", "intBeds"} : x \in DOMAIN state /\ state[x] # 0} |-> state[k]]
    @@ (IF "city" \in DOMAIN state /\ state.city # ""
          THEN ("location" :> state.city) ELSE <<>>)

\* ... and the text of its 'Searching properties...' message
SearchingText(state) ==
  <<"Searching properties">>
    \o (IF "price" \in DOMAIN state /\ state.price # 0
          THEN <<" under CI$", ToFixed1(state.price), "M">> ELSE <<>>)
    \o (IF "intBeds" \in DOMAIN state /\ state.intBeds # 0
          THEN <<", ", Text(NumberToString(state.intBeds)), " bedroom(s)">> ELSE <<>>)
    \o (IF "city" \in DOMAIN state /\ state.city # ""
          THEN <<" in ", state.city>> ELSE <<>>)
    \o <<"...">>

\* the searchState that runPropertySearch reads when selectCity(city) calls
\* it: the one of the render that built cityButtons
SearchStateRead(city) == memo.searchState

selectCity(city) ==
  /\ CityButtonsShown
  /\ Len(calls) < MaxCalls
  /\ Len(messages) + 2 <= MaxMsgs
  /\ searchState' = SetFields(searchState, [city |-> city])
  /\ localStorage' = SearchStateSaved(searchState', localStorage)
  /\ messages' = messages \o <<YouMessage(<<city>>),
                               BotMessage(SearchingText(SearchStateRead(city)),
                                          Null, Null, Null)>>
  /\ http(<<[kind |-> "search", arg |-> SearchParams(SearchStateRead(city)),
             closure |-> [currentPage |-> memo.currentPage],
             ghost |-> [city |-> city, before |-> searchState]]>>)
  /\ UNCHANGED <<mounted, options, currentPage, allPropertiesRef, userIdRef, memo,
                 onclick, timers>>

\* showMore in the closure bound to the button of message m (part_000:159-172)
NextPageOf(closure) == closure.currentPage + 1

showMore(m) ==
  /\ m \in DOMAIN onclick
  /\ LET nextPage == NextPageOf(onclick[m])
         start == (nextPage - 1) * ItemsPerPage
         end == Min(start + ItemsPerPage, Len(allPropertiesRef))
         next == Slice(allPropertiesRef, start, end)
     IN /\ Len(next) > 0
        /\ Len(messages) < MaxMsgs
        /\ messages' = Append(messages,
                         BotMessage(<<>>,
                                    renderProperties(next, Len(allPropertiesRef) - end),
                                    Null, Null))
        /\ timers' = Append(timers, BindTimer(onclick[m]))
        /\ currentPage' = nextPage
  /\ UNCHANGED <<apiVars, mounted, options, searchState, allPropertiesRef, userIdRef,
                 memo, onclick>>

\* document.getElementById('chatbot-show-more'): the first such button in
\* the document
ShowMoreButtons == {j \in 1..Len(messages) : HasShowMore(messages[j])}

FirstShowMore == CHOOSE j \in ShowMoreButtons : \A k \in ShowMoreButtons : j <= k

\* the timer of renderProperties (part_000:216-219)
BindShowMore ==
  /\ timers # <<>> /\ Head(timers).kind = "bind"
  /\ timers' = Tail(timers)
  /\ IF ShowMoreButtons # {}
       THEN onclick' = (FirstShowMore :> Head(timers).closure) @@ onclick
       ELSE UNCHANGED onclick
  /\ UNCHANGED <<apiVars, mounted, messages, options, searchState, currentPage,
                 allPropertiesRef, userIdRef, memo>>

\* the timer of selectBeds (part_000:115-117)
AskCity ==
  /\ timers # <<>> /\ Head(timers).kind = "askCity"
  /\ Len(messages) < MaxMsgs
  /\ timers' = Tail(timers)
  /\ messages' = Append(messages,
                   BotMessage(<<"Which city are you interested in?">>, Null, Null, Null))
  /\ UNCHANGED <<apiVars, mounted, options, searchState, currentPage, allPropertiesRef,
                 userIdRef, memo, onclick>>

(***************************************************************************)
(* Initial states: the page has loaded and nothing has run.  The build's   *)
(* configuration and what local storage holds from earlier page loads are  *)
(* inputs.                                                                 *)
(***************************************************************************)
Configurations ==
  {<<"", "", "">>, <<"", "user", "">>, <<"", "user", "pw">>,
   <<"static-token", "", "">>, <<"static-token", "user", "pw">>}

\* tokens saved by an earlier page load, usable until the first tick
EarlierTokens == StoredTokens("a0", "r0", T0 + TickMs)

InitialStores ==
  {t @@ u @@ q :
     t \in {<<>>, EarlierTokens},
     u \in {<<>>, ("chatbot_user_id" :> "uuid-0")},
     q \in {<<>>, ("chatbot_search_state" :> [price |-> 500000]),
            ("chatbot_search_state" :> [price |-> 500000, intBeds |-> 3])}}

InitUi ==
  /\ mounted = FALSE
  /\ messages = <<>>
  /\ options = Null
  /\ searchState = <<>>
  /\ currentPage = 1
  /\ allPropertiesRef = <<>>
  /\ userIdRef = ""
  /\ memo = Null
  /\ onclick = <<>>
  /\ timers = <<>>

InitApi ==
  /\ \E cfg \in Configurations :
       /\ STATIC_BEARER = cfg[1]
       /\ API_USERNAME = cfg[2]
       /\ API_PASSWORD = cfg[3]
  /\ ACCESS_TOKEN = ""
  /\ REFRESH_TOKEN = ""
  /\ ACCESS_EXPIRES_AT = INITIAL_EXPIRES_AT
  /\ now = T0
  /\ calls = <<>>
  /\ settled = [pc |-> "none"]
  /\ tokenLog = [op |-> "none", reloaded |-> FALSE, saved |-> FALSE]

Init ==
  /\ InitApi
  /\ InitUi
  /\ localStorage \in InitialStores

\* the exported extractParams(message), which the component does not call
extractParams(message) ==
  /\ Len(calls) < MaxApiCalls
  /\ http(<<[kind |-> "extract", arg |-> [message |-> message], closure |-> Null,
             ghost |-> Null]>>)
  /\ UNCHANGED <<localStorage, uiVars>>

Responses ==
  \/ \E i \in 1..Len(calls), st \in AuthStatuses, b \in LoginBundles : LoginResponse(i, st, b)
  \/ \E i \in 1..Len(calls) : \E r \in ResponsesFor(calls[i].kind) : FetchResponse(i, r)
  \/ \E i \in 1..Len(calls), st \in AuthStatuses, d \in RefreshData : RefreshResponse(i, st, d)
  \/ \E i \in 1..Len(calls) : \E r \in ResponsesFor(calls[i].kind) : RetryResponse(i, r)

UiEvents ==
  \/ \E uid \in UserIds : Mount(uid)
  \/ \E text \in Inputs : onSend(text)
  \/ \E v \in QuickValues : onQuick(v)
  \/ \E b \in BedChoices : selectBeds(b)
  \/ \E c \in CityChoices : selectCity(c)
  \/ \E m \in 1..Len(messages) : showMore(m)
  \/ BindShowMore
  \/ AskCity

\* the program: the page with the Chatbot component
Next ==
  \/ UiEvents
  \/ Responses
  \/ Tick

Spec == Init /\ [][Next]_vars

\* the page as the README configures it: VITE_API_BASE_URL only, so that no
\* static token and no credentials are set and local storage never holds
\* tokens; http() then neither logs in nor refreshes
UiStores ==
  {u @@ q :
     u \in {<<>>, ("chatbot_user_id" :> "uuid-0")},
     q \in {<<>>, ("chatbot_search_state" :> [price |-> 500000]),
            ("chatbot_search_state" :> [price |-> 500000, intBeds |-> 3])}}

InitChat ==
  /\ InitApi
  /\ STATIC_BEARER = "" /\ API_USERNAME = "" /\ API_PASSWORD = ""
  /\ InitUi
  /\ localStorage \in UiStores

NextChat ==
  \/ UiEvents
  \/ \E i \in 1..Len(calls) : \E r \in ResponsesFor(calls[i].kind) : FetchResponse(i, r)

SpecChat == InitChat /\ [][NextChat]_vars

\* the conversation under each way of authenticating, on a first visit (no
\* stored search state, so that the option groups are never rendered)
InitAuth ==
  /\ InitApi
  /\ <<STATIC_BEARER, API_USERNAME, API_PASSWORD>>
       \in {<<"", "", "">>, <<"", "user", "pw">>, <<"static-token", "", "">>}
  /\ InitUi
  /\ localStorage = <<>>

\* ... where the assistant answers with a property list of several pages or
\* fails, the other requests succeed or fail with 500, and a login returns
\* tokens of the default lifetime
AuthLoginBundles == {b \in LoginBundles : "expires_in" \notin DOMAIN b}

AuthResponsesFor(kind) ==
  IF kind = "chat"
    THEN OkResponses({b \in PropertyReplies : Len(b.properties.items) > FirstPageSize})
           \cup ErrorResponses
    ELSE OkResponses(BodiesFor(kind)) \cup {r \in ErrorResponses : r.status # 401}

AuthResponses ==
  \/ \E i \in 1..Len(calls), st \in AuthStatuses, b \in AuthLoginBundles : LoginResponse(i, st, b)
  \/ \E i \in 1..Len(calls) : \E r \in AuthResponsesFor(calls[i].kind) : FetchResponse(i, r)
  \/ \E i \in 1..Len(calls), st \in AuthStatuses, d \in RefreshData : RefreshResponse(i, st, d)
  \/ \E i \in 1..Len(calls) : \E r \in AuthResponsesFor(calls[i].kind) : RetryResponse(i, r)

NextAuth ==
  \/ \E uid \in UserIds : Mount(uid)
  \/ \E text \in Inputs : onSend(text)
  \/ \E m \in 1..Len(messages) : showMore(m)
  \/ BindShowMore
  \/ AuthResponses

SpecAuth == InitAuth /\ [][NextAuth]_vars

\* the API module alone, driven through extractParams
NextApi ==
  \/ \E msg \in Inputs : extractParams(msg)
  \/ Responses
  \/ Tick

InitApiOnly ==
  /\ InitApi
  /\ InitUi
  /\ localStorage \in {<<>>, EarlierTokens}

SpecApi == InitApiOnly /\ [][NextApi]_vars

\* the token store alone: saveTokens, loadTokens and a page reload, which
\* runs the module's initializers again (api.ts:22-24)
StoreBundles ==
  {[access_token |-> a, refresh_token |-> r] : a \in {"", "a1"}, r \in {"", "r1"}}
    \cup {[access_token |-> a, refresh_token |-> r, expires_in |-> e] :
            a \in {"", "a1"}, r \in {"", "r1"}, e \in {0, 7, 3600}}

SaveTokens(bundle) ==
  /\ saveTokens(bundle)
  /\ UNCHANGED <<configVars, now, calls, settled, uiVars>>

LoadTokens ==
  /\ loadTokens
  /\ UNCHANGED <<configVars, localStorage, now, calls, settled, uiVars>>

PageReload ==
  /\ ACCESS_TOKEN' = ""
  /\ REFRESH_TOKEN' = ""
  /\ ACCESS_EXPIRES_AT' = INITIAL_EXPIRES_AT
  /\ tokenLog' = [tokenLog EXCEPT !.op = "reload", !.reloaded = TRUE]
  /\ UNCHANGED <<configVars, localStorage, now, calls, settled, uiVars>>

InitStore ==
  /\ InitApi
  /\ STATIC_BEARER = "" /\ API_USERNAME = "" /\ API_PASSWORD = ""
  /\ InitUi
  /\ localStorage \in {<<>>, EarlierTokens}

NextStore ==
  \/ \E b \in StoreBundles : SaveTokens(b)
  \/ LoadTokens
  \/ PageReload
  \/ Tick

SpecStore == InitStore /\ [][NextStore]_vars

(***************************************************************************)
(* Properties.                                                             *)
(***************************************************************************)
\* every http() invocation the state knows: those in flight and the last settled
KnownCalls == {calls[i] : i \in 1..Len(calls)} \cup (IF settled.pc = "none" THEN {} ELSE {settled})

Targets(c) == {k \in 1..Len(c.sent) : c.sent[k].url = "target"}
Logins(c) == {k \in 1..Len(c.sent) : c.sent[k].url = "/auth/login"}
Refreshes(c) == {k \in 1..Len(c.sent) : c.sent[k].url = "/auth/refresh"}
IsSettled(c) == c.pc \in {"resolved", "rejected"}

\* C1: a call of http() without a static bearer token fetches its target at
\* most twice and requests /auth/refresh at most once; it fetches the target a
\* second time only after a first response 401 and a refresh that succeeded;
\* and when the retry is answered 401 too, the call fails, having made exactly
\* these two fetches and this one refresh.
C1_SingleRetryAfterRefresh ==
  \A c \in KnownCalls :
    STATIC_BEARER = "" =>
      /\ Cardinality(Targets(c)) <= 2
      /\ Cardinality(Refreshes(c)) <= 1
      /\ Cardinality(Targets(c)) = 2 =>
           /\ c.statuses[1] = 401
           /\ c.refreshed = "ok"
           /\ Cardinality(Refreshes(c)) = 1
      /\ (IsSettled(c) /\ Len(c.statuses) = 2 /\ c.statuses[2] = 401) =>
           /\ c.pc = "rejected"
           /\ Cardinality(Targets(c)) = 2
           /\ Cardinality(Refreshes(c)) = 1

C1_Witness ==
  /\ STATIC_BEARER = ""
  /\ settled.pc = "rejected"
  /\ settled.statuses = <<401, 401>>
  /\ settled.refreshed = "ok"
  /\ Cardinality(Targets(settled)) = 2

FirstTarget(c) == c.sent[CHOOSE k \in Targets(c) : \A j \in Targets(c) : k <= j]
LastSent(c) == c.sent[Len(c.sent)]

CarriesBearer(q, token) ==
  IF token # ""
    THEN "Authorization" \in DOMAIN q.headers /\ q.headers["Authorization"] = "Bearer " \o token
    ELSE "Authorization" \notin DOMAIN q.headers

\* C2: every request to the target carries "Authorization: Bearer <token>"
\* for the access token in memory when it is sent, and no Authorization header
\* when that token is empty; the retry after a successful refresh carries the
\* access token the refresh response issued, so that it differs from the
\* rejected request's header whenever the issued token differs from the
\* rejected one.
C2_BearerAttachment ==
  \A c \in KnownCalls :
    /\ \A k \in Targets(c) : CarriesBearer(c.sent[k], c.sent[k].token)
    /\ (c.refreshed = "ok" /\ Cardinality(Targets(c)) = 2) =>
         /\ LastSent(c).url = "target"
         /\ LastSent(c).token = c.issued
         /\ CarriesBearer(LastSent(c), c.issued)
         /\ c.issued # FirstTarget(c).token => LastSent(c).headers # FirstTarget(c).headers

C2_Witness ==
  /\ settled.pc # "none"
  /\ settled.refreshed = "ok"
  /\ Cardinality(Targets(settled)) = 2
  /\ FirstTarget(settled).headers["Authorization"] = "Bearer a1"
  /\ LastSent(settled).headers["Authorization"] = "Bearer a2"

StoredUsable(c) == c.stored.access # "" /\ c.at < c.stored.expires

\* C3 as stated: /auth/login is requested only without a static token, with
\* both credentials set and with the loaded access token empty or expired; and
\* whenever local storage holds a non-empty, unexpired access token when the
\* call starts, no login is requested and the first request carries that token.
C3_LoginOnDemand_AsStated ==
  \A c \in KnownCalls :
    /\ Logins(c) # {} =>
         /\ STATIC_BEARER = ""
         /\ API_USERNAME # "" /\ API_PASSWORD # ""
         /\ (c.stored.access = "" \/ c.at >= c.stored.expires)
    /\ StoredUsable(c) =>
         /\ Logins(c) = {}
         /\ CarriesBearer(FirstTarget(c), c.stored.access)

\* C3 (amended): the same, the stored token being the one used only when no
\* static bearer token is configured.
C3_LoginOnDemand ==
  \A c \in KnownCalls :
    /\ Logins(c) # {} =>
         /\ STATIC_BEARER = ""
         /\ API_USERNAME # "" /\ API_PASSWORD # ""
         /\ (c.stored.access = "" \/ c.at >= c.stored.expires)
         /\ Cardinality(Logins(c)) = 1
    /\ StoredUsable(c) =>
         /\ Logins(c) = {}
         /\ STATIC_BEARER = "" => CarriesBearer(FirstTarget(c), c.stored.access)

\* a call that found an expired token and logged in, and then one that found
\* the token this login stored and used it
C3_Witness ==
  /\ STATIC_BEARER = ""
  /\ tokenLog.saved /\ tokenLog.bundle.access_token = "a1"
  /\ \E c \in KnownCalls :
       /\ c.stored.access = "a1" /\ StoredUsable(c)
       /\ Logins(c) = {}
       /\ FirstTarget(c).headers["Authorization"] = "Bearer a1"

C3_WitnessLogin ==
  \E c \in KnownCalls :
    /\ Logins(c) # {}
    /\ c.stored.access = "a0" /\ c.at >= c.stored.expires

Memory == [access |-> ACCESS_TOKEN, refresh |-> REFRESH_TOKEN, expires |-> ACCESS_EXPIRES_AT]

\* what the last saveTokens(bundle) has to leave: the bundle's tokens and
\* save time + expires_in s (900 s when absent) - 5 s, in ms
ExpectedTokens ==
  [access  |-> tokenLog.bundle.access_token,
   refresh |-> tokenLog.bundle.refresh_token,
   expires |-> tokenLog.at
                 + (IF "expires_in" \in DOMAIN tokenLog.bundle
                      THEN tokenLog.bundle.expires_in * 1000 ELSE 900000)
                 - 5000]

TokenKeys == {"cb_access_token", "cb_refresh_token", "cb_access_expires_at"}

\* C4: right after saveTokens(bundle) the tokens and the expiry in memory are
\* the bundle's tokens and save time + expires_in s (900 s when absent) - 5 s,
\* and local storage holds them under the three cb_ keys; and right after a
\* loadTokens() that follows a save (a page reload or time in between) memory
\* holds the saved values again.
C4_TokenStoreRoundTrip ==
  /\ tokenLog.op = "save" =>
       /\ Memory = ExpectedTokens
       /\ TokenKeys \subseteq DOMAIN localStorage
       /\ localStorage["cb_access_token"] = ACCESS_TOKEN
       /\ localStorage["cb_refresh_token"] = REFRESH_TOKEN
       /\ StringToNumber(localStorage["cb_access_expires_at"]) = ACCESS_EXPIRES_AT
  /\ (tokenLog.op = "load" /\ tokenLog.saved) => Memory = ExpectedTokens

\* tokens saved with the default lifetime, the page reloaded, and loadTokens()
\* having restored them
C4_Witness ==
  /\ tokenLog.op = "load" /\ tokenLog.reloaded /\ tokenLog.saved
  /\ "expires_in" \notin DOMAIN tokenLog.bundle
  /\ tokenLog.at > T0
  /\ ACCESS_TOKEN = "a1" /\ REFRESH_TOKEN = "r1"
  /\ ACCESS_EXPIRES_AT = tokenLog.at + 895000

\* a step in which an http() invocation settles (and its continuation runs)
SettleStep == Len(calls') = Len(calls) - 1

ChatReplyStep == SettleStep /\ settled'.kind = "chat" /\ settled'.pc = "resolved"

\* the messages a step appends
Appended == {messages'[j] : j \in (Len(messages) + 1)..Len(messages')}

ClaimedOption(e) ==
  IF e.tag = "string" THEN QuickButton(e.s, e.s)
  ELSE QuickButton(FirstPresent(e, LabelFields), FirstPresent(e, ValueFields))

ClaimedList(raw) ==
  IF IsNull(raw) THEN Null
  ELSE Array([i \in 1..Len(raw.items) |-> ClaimedOption(raw.items[i])])

\* C5 as stated: for every chat reply the buttons come from the first array
\* among buttons, options, choices and the dropdown from the first among
\* dropdown, select_options (null when none is an array), and every element
\* maps in order to a {label, value} pair, a string s to {s, s}, an object by
\* the first present of its label and value fields; an onboarding reply shows
\* that list in the message it appends.
C5_Normalization_AsStated ==
  [][ChatReplyStep =>
        LET resp == Unwrap(settled'.body)
            buttons == ClaimedList(rawButtons(resp))
            dropdown == ClaimedList(rawDropdown(resp))
        IN /\ Normalized(rawButtons(resp)) = buttons
           /\ Normalized(rawDropdown(resp)) = dropdown
           /\ StringField(resp, "type") = "onboarding" =>
                IF isDropdown(resp) /\ NonEmpty(dropdown)
                  THEN \E m \in Appended : m.dropdown = dropdown
                ELSE IF isButtons(resp) /\ NonEmpty(buttons)
                  THEN \E m \in Appended : m.buttons = buttons
                ELSE TRUE]_vars

\* C6 as stated: a reply whose response_type asks for a dropdown and that
\* carries a non-empty dropdown list appends a bot message with that dropdown,
\* whatever its type and result.
C6_DropdownRendered_AsStated ==
  [][ChatReplyStep =>
        LET resp == Unwrap(settled'.body)
            dropdown == Normalized(rawDropdown(resp))
        IN (isDropdown(resp) /\ NonEmpty(dropdown)) =>
             \E m \in Appended : m.sender = "Bot" /\ m.dropdown = dropdown]_vars

\* the properties shown by the card messages up to message j, in order
RECURSIVE ShownUpTo(_)
ShownUpTo(j) ==
  IF j = 0 THEN <<>>
  ELSE ShownUpTo(j - 1) \o
         (IF messages[j].html.tag = "cards" THEN messages[j].html.items ELSE <<>>)

CardMessages == {j \in 1..Len(messages) : messages[j].html.tag = "cards"}
FoundMessages == {j \in CardMessages : messages[j].text # <<>>}
ClickMessages == {j \in CardMessages : messages[j].text = <<>>}

\* ceil(n / 3) - 1
ClicksNeeded(n) == ((n + ItemsPerPage - 1) \div ItemsPerPage) - 1

\* a Show More button whose handler would still append properties
LiveHandlers ==
  {m \in DOMAIN onclick \cap ShowMoreButtons :
     (NextPageOf(onclick[m]) - 1) * ItemsPerPage < Len(allPropertiesRef)}

\* C7 as stated: while one result list of n properties is on show, its first
\* message shows the first 3 with a Show More button iff n > 3, every click
\* appends the next (up to 3) properties not yet shown, in list order, under a
\* remaining count of n minus the number shown so far, no property is shown
\* twice, and after ceil(n/3) - 1 clicks all n are shown and no Show More
\* button keeps a handler that shows more.
C7_Pagination_AsStated ==
  LET all == allPropertiesRef
      n == Len(all)
  IN (Cardinality(FoundMessages) = 1 /\ n > 0) =>
       /\ \A j \in FoundMessages :
            /\ messages[j].html.items = Slice(all, 0, Min(FirstPageSize, n))
            /\ HasShowMore(messages[j]) <=> n > FirstPageSize
       /\ \A j \in CardMessages :
            LET shown == ShownUpTo(j)
            IN /\ Len(shown) <= n
               /\ shown = SubSeq(all, 1, Len(shown))
               /\ messages[j].html.remaining = n - Len(shown)
       /\ \A j \in ClickMessages :
            Len(messages[j].html.items) = Min(ItemsPerPage, n - Len(ShownUpTo(j - 1)))
       /\ Cardinality(ClickMessages) >= ClicksNeeded(n) =>
            /\ ShownUpTo(Len(messages)) = all
            /\ LiveHandlers = {}

\* C8 as stated: every request to /chatbot, the onboarding prompt sent at boot
\* included, carries a non-empty user_id, the one stored in local storage
\* under chatbot_user_id.
C8_UserIdOnEveryChat_AsStated ==
  \A c \in KnownCalls :
    c.kind = "chat" =>
      /\ c.arg.user_id # ""
      /\ "chatbot_user_id" \in DOMAIN localStorage
      /\ c.arg.user_id = localStorage["chatbot_user_id"]

StatusText(status) ==
  IF status = 401 THEN "401" ELSE IF status = 500 THEN "500" ELSE "other"

\* C10: when the final response of a chat request is not OK (a 401 that could
\* not be refreshed included), http() rejects with an error whose message
\* starts with 'HTTP <status>', and sendPrompt appends exactly one bot message
\* carrying that message and leaves the earlier messages, the property list
\* and the current page as they were.
C10_ChatFailurePath ==
  [][(SettleStep /\ settled'.kind = "chat") =>
        LET c == settled'
            final == c.statuses[Len(c.statuses)]
        IN (final \notin 200..299) =>
                /\ c.pc = "rejected"
                /\ Len(c.error) >= 2
                /\ c.error[1] = "HTTP " /\ c.error[2] = StatusText(final)
                /\ messages' = Append(messages,
                                      [sender |-> "Bot", text |-> c.error, html |-> Null,
                                       buttons |-> Null, dropdown |-> Null])
                /\ allPropertiesRef' = allPropertiesRef
                /\ currentPage' = currentPage]_vars

\* a chat request answered 401, not refreshed, and its error on show
C10_Witness ==
  /\ settled.pc = "rejected" /\ settled.kind = "chat"
  /\ settled.statuses = <<401>> /\ settled.refreshed \in {"failed", "impossible"}
  /\ allPropertiesRef # <<>>
  /\ messages[Len(messages)].sender = "Bot"
  /\ messages[Len(messages)].text = settled.error

\* the step in which the /auth/refresh request of call i is answered OK
RefreshedStep(i) ==
  /\ i \in 1..Len(calls) /\ calls[i].pc = "refresh"
  /\ Len(calls') = Len(calls) /\ calls'[i].pc = "retry"

\* the step in which a call fails on a 401 whose refresh the server rejected
RefreshRejectedStep == SettleStep /\ settled'.refreshed = "failed"

\* the step in which a call fails on a 401 with no refresh token to use
RefreshImpossibleStep == SettleStep /\ settled'.refreshed = "impossible"

TokensUntouched ==
  /\ ACCESS_TOKEN' = ACCESS_TOKEN
  /\ REFRESH_TOKEN' = REFRESH_TOKEN
  /\ ACCESS_EXPIRES_AT' = ACCESS_EXPIRES_AT
  /\ localStorage' = localStorage

\* C11: a successful refresh replaces the access token and the expiry, in
\* memory and in local storage, by those of the response (now + expires_in s,
\* 900 s when absent, - 5 s) and leaves the refresh token as it was; a refresh
\* that is impossible (empty refresh token: no /auth/refresh request is sent)
\* or rejected by the server leads to no retry and leaves the access token,
\* the refresh token, the expiry and local storage exactly as they were.
C11_RefreshKeepsRefreshToken ==
  [][/\ \A i \in 1..Len(calls) :
          RefreshedStep(i) =>
            /\ REFRESH_TOKEN' = REFRESH_TOKEN
            /\ REFRESH_TOKEN' # ""
            /\ \E d \in RefreshData :
                 /\ ACCESS_TOKEN' = d.access_token
                 /\ ACCESS_EXPIRES_AT' =
                      now + (IF "expires_in" \in DOMAIN d THEN d.expires_in ELSE 900) * 1000
                          - 5000
            /\ ACCESS_TOKEN' = calls'[i].issued
            /\ TokenKeys \subseteq DOMAIN localStorage'
            /\ localStorage'["cb_access_token"] = ACCESS_TOKEN'
            /\ localStorage'["cb_refresh_token"] = REFRESH_TOKEN
            /\ StringToNumber(localStorage'["cb_access_expires_at"]) = ACCESS_EXPIRES_AT'
            /\ \A k \in DOMAIN localStorage \ TokenKeys :
                 k \in DOMAIN localStorage' /\ localStorage'[k] = localStorage[k]
     /\ RefreshRejectedStep =>
          /\ TokensUntouched
          /\ Cardinality(Refreshes(settled')) = 1
          /\ Cardinality(Targets(settled')) = 1
          /\ settled'.pc = "rejected"
     /\ RefreshImpossibleStep =>
          /\ TokensUntouched
          /\ REFRESH_TOKEN = ""
          /\ Refreshes(settled') = {}
          /\ Cardinality(Targets(settled')) = 1
          /\ settled'.pc = "rejected"]_vars

\* a call whose refresh succeeded with the refresh token of an earlier
\* session, now retrying with the new access token
C11_Witness ==
  /\ \E i \in 1..Len(calls) :
       /\ calls[i].pc = "retry" /\ calls[i].refreshed = "ok"
       /\ calls[i].stored.refresh = "r0"
       /\ calls[i].issued = ACCESS_TOKEN
  /\ tokenLog.op = "save"
  /\ ACCESS_TOKEN = "a2" /\ REFRESH_TOKEN = "r0"
  /\ localStorage["cb_refresh_token"] = "r0"
  /\ localStorage["cb_access_token"] = "a2"

\* a call that failed after the server rejected its refresh
C11_WitnessRejected ==
  /\ settled.pc = "rejected" /\ settled.refreshed = "failed"
  /\ REFRESH_TOKEN = "r0" /\ ACCESS_TOKEN = "a0"

\* a call that failed on a 401 with no refresh token in memory
C11_WitnessImpossible ==
  /\ settled.pc = "rejected" /\ settled.refreshed = "impossible"
  /\ STATIC_BEARER = "" /\ REFRESH_TOKEN = ""

====
